---- MODULE Spec2Model ----
(***************************************************************************)
(* A model of the teehee hex editor's editable-buffer engine:              *)
(*   - the delta algebra of src/history.rs (Action::invert, Action::chain) *)
(*     over the xi_rope Delta / Subset operations it calls;                *)
(*   - the History record of src/history.rs;                               *)
(*   - the windowed chunk streamer and the scrolling of                    *)
(*     src/hex_view/view.rs (HexView).                                     *)
(*                                                                         *)
(* Bytes are natural numbers.  A rope is the sequence of its bytes.        *)
(* A xi_rope Subset is held element by element: the sequence of the count  *)
(* of every position (xi_rope stores the run-length encoding of that       *)
(* sequence).  A xi_rope Delta is held element by element too:             *)
(* Copy(b, e) is the run Copy(b), ..., Copy(e-1) and Insert(node) the run  *)
(* of its bytes.  A library call that panics yields Poison, and Poison     *)
(* propagates through every later call.                                    *)
(***************************************************************************)
EXTENDS Integers, Sequences, FiniteSets, TLC

\* ------------------------------------------------------------------------
\* Bounds of the delta-algebra specifications.
MaxBase == 3     \* longest base rope
MaxIns == 1      \* most bytes one delta inserts

\* ------------------------------------------------------------------------
\* Generic helpers.
Max(S) == CHOOSE x \in S : \A y \in S : y <= x

Min2(a, b) == IF a <= b THEN a ELSE b

Max2(a, b) == IF a >= b THEN a ELSE b

SatSub(a, b) == IF a >= b THEN a - b ELSE 0

RECURSIVE KeepWhere(_, _)
\* The subsequence of s at the positions i with keep[i].
KeepWhere(s, keep) ==
    IF Len(s) = 0 THEN <<>>
    ELSE LET r == KeepWhere(SubSeq(s, 1, Len(s) - 1), keep)
         IN  IF keep[Len(s)] THEN Append(r, s[Len(s)]) ELSE r

\* Number of positions of s, among the first i, that hold a zero count.
ZerosUpTo(s, i) == Cardinality({j \in 1..i : s[j] = 0})

NonZerosUpTo(s, i) == Cardinality({j \in 1..i : s[j] # 0})

\* ------------------------------------------------------------------------
\* State.  Three components are modelled, each under its own specification:
\* the delta algebra of src/history.rs (SpecDelta), the History stacks
\* (SpecHistory) and the HexView window over a file (SpecView).  A
\* specification leaves the variables of the other two at rest.

\* A delta that has not been computed yet, and Option::None.
Unset == [els |-> <<>>, base_len |-> -2]
None == [els |-> <<>>, base_len |-> -3]

VARIABLES start_rope, delta1, delta2, inversion, chained,
          chained_id_first, chained_id_second

algVars == <<start_rope, delta1, delta2, inversion, chained,
             chained_id_first, chained_id_second>>

VARIABLES buffer, current_incomplete, undo, redo,
          orig, snaps, pending, n_undos, n_redos, clean

histVars == <<buffer, current_incomplete, undo, redo,
              orig, snaps, pending, n_undos, n_redos, clean>>

VARIABLES file_len, data, start_offset, size_rows, bytes_per_line,
          selection, main_selection, status, build, ev

viewVars == <<file_len, data, start_offset, size_rows, bytes_per_line,
              selection, main_selection, status, build, ev>>

\* What the last transition_dirty_bytes did: the scroll it made (its
\* direction, line count, start_offset before and after, whether it passed
\* the test for the bottom, the rows it invalidated), whether the window was
\* fetched into or trimmed, and the intervals, rows, start_offset and visible
\* end of the draw_rows of ChangeInPlace.
NoRender ==
    [op |-> "none", n |-> 0, scroll |-> "none", lines |-> 0, from |-> 0,
     advanced |-> FALSE, scrolled_to |-> 0, scroll_rows |-> {},
     fetched |-> FALSE, dirty |-> {}, dirty_drawn |-> FALSE,
     dirty_rows |-> {}, dirty_start |-> 0, dirty_end |-> 0,
     marks |-> <<>>, marks_start |-> 0, marked |-> FALSE]

\* What the last event did, for the properties: the rope and start_offset
\* when its scroll began, and before each trigger of manage_buffer, after
\* its fetch and after its trim; the file offset the near-bottom fetch read
\* at; whether draw_rows drew invalidated rows and whether draw cleared the
\* screen.
NoEvent ==
    [in_scroll |-> FALSE, managed |-> FALSE,
     scroll_data |-> <<>>, scroll_start |-> 0,
     nb_fired |-> FALSE, nb_data |-> <<>>, nb_start |-> 0,
     nb_after_data |-> <<>>, nb_after_start |-> 0,
     nt_fired |-> FALSE, nt_data |-> <<>>, nt_start |-> 0,
     nt_after_data |-> <<>>, nt_after_start |-> 0,
     sel_remapped |-> <<>>,
     nb_read_at |-> 0, nb_fetched_data |-> <<>>,
     nt_fetched_data |-> <<>>, nt_fetched_start |-> 0,
     rows_drawn |-> FALSE, cleared |-> FALSE, r |-> NoRender]

\* src/navigation.rs: NavigationSystem { file_size, current_percentage,
\* chunk_size }, with the last call of a jump and of NavigationCommand::parse.
VARIABLES file_size, current_percentage, nav_call, parse_call

navVars == <<file_size, current_percentage, nav_call, parse_call>>

\* An f64: a number, a NaN, or an infinity of sign v.
Num(n) == [k |-> "num", v |-> n]
NaN == [k |-> "nan", v |-> 0]
Inf == [k |-> "inf", v |-> 1]
NegInf == [k |-> "inf", v |-> -1]

NoCall == [op |-> "none"]

\* src/modes/replace.rs: the mode, the bytes and the regions of the current
\* buffer, the key events typed since the mode was entered, the mode and the
\* bytes before the last event, and the last event.
VARIABLES mode, content, regions, typed, prev, last_event

modeVars == <<mode, content, regions, typed, prev, last_event>>

vars == <<algVars, histVars, viewVars, navVars, modeVars>>

IdleMode ==
    /\ mode = Unset
    /\ content = <<>>
    /\ regions = <<>>
    /\ typed = <<>>
    /\ prev = Unset
    /\ last_event = Unset

IdleNav ==
    /\ file_size = 0
    /\ current_percentage = Num(0)
    /\ nav_call = NoCall
    /\ parse_call = NoCall

IdleDelta ==
    /\ start_rope = <<>>
    /\ delta1 = Unset
    /\ delta2 = Unset
    /\ inversion = Unset
    /\ chained = Unset
    /\ chained_id_first = Unset
    /\ chained_id_second = Unset

IdleHistory ==
    /\ buffer = <<>>
    /\ current_incomplete = None
    /\ undo = <<>>
    /\ redo = <<>>
    /\ orig = <<>>
    /\ snaps = <<>>
    /\ pending = FALSE
    /\ n_undos = 0
    /\ n_redos = 0
    /\ clean = TRUE

IdleView ==
    /\ file_len = 0
    /\ data = <<>>
    /\ start_offset = 0
    /\ size_rows = 0
    /\ bytes_per_line = 0
    /\ selection = <<>>
    /\ main_selection = 0
    /\ status = "idle"
    /\ build = "none"
    /\ ev = NoEvent


\* ------------------------------------------------------------------------
\* xi_rope values.
Poison == <<-1>>

PoisonDelta == [els |-> <<>>, base_len |-> -1]

IsPoison(x) == x = Poison

IsPoisonDelta(d) == d.base_len = -1

Copy(i) == [k |-> "copy", v |-> i]

Insert(b) == [k |-> "insert", v |-> b]

\* byte_rope::Rope::apply_delta: LengthMismatch unless the base length agrees.
apply_delta(rope, d) ==
    IF IsPoison(rope) \/ IsPoisonDelta(d) \/ d.base_len # Len(rope) THEN Poison
    ELSE [i \in 1..Len(d.els) |->
            IF d.els[i].k = "copy" THEN rope[d.els[i].v + 1] ELSE d.els[i].v]

\* byte_rope::Rope::without_subset (Subset::delete_from): the bytes at the
\* positions the subset counts zero times.
without_subset(rope, subset) ==
    IF IsPoison(rope) \/ IsPoison(subset) THEN Poison
    ELSE IF \E i \in 1..Len(subset) : subset[i] = 0 /\ i > Len(rope) THEN Poison
    ELSE KeepWhere(SubSeq(rope, 1, Min2(Len(rope), Len(subset))),
                   [i \in 1..Len(subset) |-> subset[i] = 0])

\* Subset::complement.
complement(s) ==
    IF IsPoison(s) THEN Poison
    ELSE [i \in 1..Len(s) |-> IF s[i] = 0 THEN 1 ELSE 0]

\* Subset::is_empty.
is_empty(s) == \A i \in 1..Len(s) : s[i] = 0

\* Subset::transform: map self into the 0-regions of other; panics unless the
\* 0-regions of other have the size of self.
transform(self, other, keep_other) ==
    IF IsPoison(self) \/ IsPoison(other) THEN Poison
    ELSE IF ZerosUpTo(other, Len(other)) # Len(self) THEN Poison
    ELSE [i \in 1..Len(other) |->
            IF other[i] > 0 THEN (IF keep_other THEN other[i] ELSE 0)
            ELSE self[ZerosUpTo(other, i)]]

transform_expand(self, other) == transform(self, other, FALSE)

transform_union(self, other) == transform(self, other, TRUE)

\* Subset::transform_shrink: drop the positions other counts; zip panics on
\* subsets of different lengths.
transform_shrink(self, other) ==
    IF IsPoison(self) \/ IsPoison(other) \/ Len(self) # Len(other) THEN Poison
    ELSE KeepWhere(self, [i \in 1..Len(other) |-> other[i] = 0])

\* Subset::union: the counts add up.
union(a, b) ==
    IF IsPoison(a) \/ IsPoison(b) \/ Len(a) # Len(b) THEN Poison
    ELSE [i \in 1..Len(a) |-> a[i] + b[i]]

\* The base position an Insert at index j of els is placed at by
\* Delta::factor: the end of the last Copy before it (e1).
InsertPoint(els, j) ==
    LET cs == {els[k].v : k \in {k \in 1..(j - 1) : els[k].k = "copy"}}
    IN  IF cs = {} THEN 0 ELSE Max(cs) + 1

RECURSIVE FactorIns(_, _, _)
\* The elements of factor's InsertDelta from base position g on.
FactorIns(els, n, g) ==
    LET here == KeepWhere(els, [j \in 1..Len(els) |->
                    els[j].k = "insert" /\ InsertPoint(els, j) = g])
    IN  IF g >= n THEN here
        ELSE here \o <<Copy(g)>> \o FactorIns(els, n, g + 1)

\* Delta::factor, first component: the insert-only delta over the base.
FactorInserts(d) ==
    IF IsPoisonDelta(d) THEN PoisonDelta
    ELSE [els |-> FactorIns(d.els, d.base_len, 0), base_len |-> d.base_len]

\* Delta::factor, second component: the base positions no Copy covers.
FactorDeletions(d) ==
    IF IsPoisonDelta(d) THEN Poison
    ELSE [i \in 1..d.base_len |->
            IF \E j \in 1..Len(d.els) : d.els[j] = Copy(i - 1) THEN 0 ELSE 1]

\* InsertDelta::inserted_subset.
inserted_subset(ins) ==
    IF IsPoisonDelta(ins) THEN Poison
    ELSE [i \in 1..Len(ins.els) |-> IF ins.els[i].k = "insert" THEN 1 ELSE 0]

\* Number of Copy elements among the first j elements.
CopiesUpTo(els, j) == Cardinality({k \in 1..j : els[k].k = "copy"})

\* Position (1-based) of the p-th zero of xform; Len + 1 when there is none.
NthZero(xform, p) ==
    IF p > ZerosUpTo(xform, Len(xform)) THEN Len(xform) + 1
    ELSE CHOOSE i \in 1..Len(xform) : xform[i] = 0 /\ ZerosUpTo(xform, i) = p

RECURSIVE ExpandIns(_, _, _, _)
\* The elements of the expanded insert delta from position y (0-based) of
\* the xform space on: the inserts that land at y, then Copy(y).
ExpandIns(els, xform, after, y) ==
    LET landing(j) ==
            LET p == CopiesUpTo(els, j)   \* copies before the insert
            IN  IF after THEN NthZero(xform, p + 1) - 1
                ELSE IF p = 0 THEN 0 ELSE NthZero(xform, p)
        here == KeepWhere(els, [j \in 1..Len(els) |->
                    els[j].k = "insert" /\ landing(j) = y])
    IN  IF y >= Len(xform) THEN here
        ELSE here \o <<Copy(y)>> \o ExpandIns(els, xform, after, y + 1)

\* InsertDelta::transform_expand: re-base an insert-only delta onto the
\* space of xform; `after` puts its inserts after xform's own elements at a
\* coincident position.
ins_transform_expand(ins, xform, after) ==
    IF IsPoisonDelta(ins) \/ IsPoison(xform) THEN PoisonDelta
    ELSE IF CopiesUpTo(ins.els, Len(ins.els)) # ZerosUpTo(xform, Len(xform))
         THEN PoisonDelta
    ELSE [els |-> ExpandIns(ins.els, xform, after, 0), base_len |-> Len(xform)]

\* Delta::synthesize: the delta from (union minus from_dels) to (union minus
\* to_dels); the content of what from_dels holds is read from tombstones.
synthesize(tombstones, from_dels, to_dels) ==
    IF IsPoison(tombstones) \/ IsPoison(from_dels) \/ IsPoison(to_dels)
    THEN PoisonDelta
    ELSE IF Len(from_dels) # Len(to_dels) THEN PoisonDelta
    ELSE IF \E i \in 1..Len(to_dels) :
               /\ to_dels[i] = 0
               /\ from_dels[i] # 0
               /\ NonZerosUpTo(from_dels, i) > Len(tombstones)
         THEN PoisonDelta
    ELSE LET el == [i \in 1..Len(to_dels) |->
                      IF from_dels[i] = 0
                      THEN Copy(ZerosUpTo(from_dels, i) - 1)
                      ELSE Insert(tombstones[NonZerosUpTo(from_dels, i)])]
         IN  [els |-> KeepWhere(el, [i \in 1..Len(to_dels) |-> to_dels[i] = 0]),
              base_len |-> ZerosUpTo(from_dels, Len(from_dels))]

\* ------------------------------------------------------------------------
\* src/history.rs: Action.  An Action is its delta.
from_delta(delta) == delta

\* A mutant of invert: the content is read from the bytes the delta keeps.
invert_kept_content(self, base_rope) ==
    LET inserts == FactorInserts(self)
        deletions == FactorDeletions(self)
        ins_subset == inserted_subset(inserts)
        deleted_now == without_subset(base_rope, deletions)
        deletions_from_base == transform_expand(deletions, ins_subset)
        deletions_from_inverted == ins_subset
    IN  synthesize(deleted_now, deletions_from_base, deletions_from_inverted)

\* Action::invert.
invert(self, base_rope) ==
    LET inserts == FactorInserts(self)
        deletions == FactorDeletions(self)
        ins_subset == inserted_subset(inserts)
        deleted_now == without_subset(base_rope, complement(deletions))
        deletions_from_base == transform_expand(deletions, ins_subset)
        deletions_from_inverted == ins_subset
    IN  synthesize(deleted_now, deletions_from_base, deletions_from_inverted)

\* A mutant of subsets_for_chain: the deletions of the later delta are lost.
subsets_for_chain_first_deletes(self, next) ==
    LET ins1 == FactorInserts(self)
        del1 == FactorDeletions(self)
        ins2 == FactorInserts(next)
        inserts_in_mid_union == inserted_subset(ins1)
        deletes_from_mid_union == transform_expand(del1, inserted_subset(ins1))
        union_ins_delta == ins_transform_expand(ins2, deletes_from_mid_union, TRUE)
        new_inserts == inserted_subset(union_ins_delta)
        rebased_deletes_from_union ==
            transform_expand(deletes_from_mid_union, new_inserts)
        rebased_inserts_in_union ==
            transform_expand(inserts_in_mid_union, new_inserts)
        inserts_in_union == union(rebased_inserts_in_union, new_inserts)
        inserts_in_mid_text ==
            transform_shrink(inserts_in_mid_union, deletes_from_mid_union)
        prefinal_insertion == inserted_subset(ins2)
        inserts_in_prefinal ==
            transform_union(inserts_in_mid_text, prefinal_insertion)
    IN  <<inserts_in_union, rebased_deletes_from_union, inserts_in_prefinal>>

\* A mutant of subsets_for_chain: the inserts of the later delta are left out
\* of the inserts over the union.
subsets_for_chain_first_inserts(self, next) ==
    LET ins1 == FactorInserts(self)
        del1 == FactorDeletions(self)
        ins2 == FactorInserts(next)
        del2 == FactorDeletions(next)
        inserts_in_mid_union == inserted_subset(ins1)
        deletes_from_mid_union == transform_expand(del1, inserted_subset(ins1))
        union_ins_delta == ins_transform_expand(ins2, deletes_from_mid_union, TRUE)
        new_inserts == inserted_subset(union_ins_delta)
        new_deletes ==
            LET pre_expand == transform_expand(del2, deletes_from_mid_union)
            IN  IF is_empty(new_inserts) THEN pre_expand
                ELSE transform_expand(pre_expand, new_inserts)
        rebased_deletes_from_union ==
            transform_expand(deletes_from_mid_union, new_inserts)
        deletes_from_union == union(rebased_deletes_from_union, new_deletes)
        rebased_inserts_in_union ==
            transform_expand(inserts_in_mid_union, new_inserts)
        inserts_in_mid_text ==
            transform_shrink(inserts_in_mid_union, deletes_from_mid_union)
        prefinal_insertion == inserted_subset(ins2)
        inserts_in_prefinal ==
            transform_union(inserts_in_mid_text, prefinal_insertion)
    IN  <<rebased_inserts_in_union, deletes_from_union, inserts_in_prefinal>>

\* Action::subsets_for_chain: (inserts, deletes, inserts_in_prefinal).
subsets_for_chain(self, next) ==
    LET ins1 == FactorInserts(self)
        del1 == FactorDeletions(self)
        ins2 == FactorInserts(next)
        del2 == FactorDeletions(next)
        inserts_in_mid_union == inserted_subset(ins1)
        deletes_from_mid_union == transform_expand(del1, inserted_subset(ins1))
        union_ins_delta == ins_transform_expand(ins2, deletes_from_mid_union, TRUE)
        new_inserts == inserted_subset(union_ins_delta)
        new_deletes ==
            LET pre_expand == transform_expand(del2, deletes_from_mid_union)
            IN  IF is_empty(new_inserts) THEN pre_expand
                ELSE transform_expand(pre_expand, new_inserts)
        rebased_deletes_from_union ==
            transform_expand(deletes_from_mid_union, new_inserts)
        deletes_from_union == union(rebased_deletes_from_union, new_deletes)
        rebased_inserts_in_union ==
            transform_expand(inserts_in_mid_union, new_inserts)
        inserts_in_union == union(rebased_inserts_in_union, new_inserts)
        inserts_in_mid_text ==
            transform_shrink(inserts_in_mid_union, deletes_from_mid_union)
        prefinal_insertion == inserted_subset(ins2)
        inserts_in_prefinal ==
            transform_union(inserts_in_mid_text, prefinal_insertion)
    IN  <<inserts_in_union, deletes_from_union, inserts_in_prefinal>>

\* A mutant of chain: the tombstones are the bytes that are no inserts.
chain_kept_tombstones(self, after_self, next) ==
    LET after_next == apply_delta(after_self, FactorInserts(next))
        subsets == subsets_for_chain(self, next)
        inserted == subsets[1]
        deleted == subsets[2]
        inserts_in_prefinal == subsets[3]
        tombstones == without_subset(after_next, inserts_in_prefinal)
    IN  synthesize(tombstones, inserted, deleted)

\* A mutant of chain: the delta is synthesized from the deletes to the
\* inserts.
chain_reversed(self, after_self, next) ==
    LET after_next == apply_delta(after_self, FactorInserts(next))
        subsets == subsets_for_chain(self, next)
        inserted == subsets[1]
        deleted == subsets[2]
        inserts_in_prefinal == subsets[3]
        tombstones == without_subset(after_next, complement(inserts_in_prefinal))
    IN  synthesize(tombstones, deleted, inserted)

\* Action::chain.
chain(self, after_self, next) ==
    LET after_next == apply_delta(after_self, FactorInserts(next))
        subsets == subsets_for_chain(self, next)
        inserted == subsets[1]
        deleted == subsets[2]
        inserts_in_prefinal == subsets[3]
        tombstones == without_subset(after_next, complement(inserts_in_prefinal))
    IN  synthesize(tombstones, inserted, deleted)

\* ------------------------------------------------------------------------
\* The deltas a DeltaBuilder builds over a base of length n: copies of
\* increasing base positions with at most `left` inserted bytes between
\* them.  The inserted bytes of one delta are pairwise distinct and start at
\* byte0, so that a misplaced or reordered byte shows.
RECURSIVE DeltaEls(_, _, _, _)
DeltaEls(n, nxt, left, byte0) ==
    {<<>>}
    \cup UNION {{<<Copy(i)>> \o t : t \in DeltaEls(n, i + 1, left, byte0)} :
                    i \in nxt..(n - 1)}
    \cup (IF left = 0 THEN {}
          ELSE {<<Insert(byte0 + left)>> \o t :
                    t \in DeltaEls(n, nxt, left - 1, byte0)})

Deltas(n, byte0) ==
    {[els |-> e, base_len |-> n] : e \in DeltaEls(n, 0, MaxIns, byte0)}

\* The base ropes: n distinct bytes 0 .. n-1 (no operation reads a byte's
\* value, so distinct bytes tell every position apart).
BaseRopes == {[i \in 1..n |-> i - 1] : n \in 0..MaxBase}

Bytes1 == 100    \* bytes inserted by the first delta are 101, 102, ...
Bytes2 == 200    \* bytes inserted by the second delta are 201, 202, ...



mid_rope == apply_delta(start_rope, delta1)

final_rope == apply_delta(mid_rope, delta2)

InitDelta ==
    /\ start_rope \in BaseRopes
    /\ delta1 \in Deltas(Len(start_rope), Bytes1)
    /\ delta2 \in Deltas(Len(apply_delta(start_rope, delta1)), Bytes2)
    /\ inversion = Unset
    /\ chained = Unset
    /\ chained_id_first = Unset
    /\ chained_id_second = Unset
    /\ IdleHistory
    /\ IdleView
    /\ IdleNav
    /\ IdleMode

\* let inversion = Action { delta: d1 }.invert(&base_rope);
DoInvert ==
    /\ inversion = Unset
    /\ inversion' = invert(from_delta(delta1), start_rope)
    /\ UNCHANGED <<start_rope, delta1, delta2, chained,
                   chained_id_first, chained_id_second>>
    /\ UNCHANGED <<histVars, viewVars, navVars, modeVars>>

\* let chained_delta = Action::from_delta(d1).chain(&mid_rope, d2);
DoChain ==
    /\ chained = Unset
    /\ chained' = chain(from_delta(delta1), mid_rope, delta2)
    /\ UNCHANGED <<start_rope, delta1, delta2, inversion,
                   chained_id_first, chained_id_second>>
    /\ UNCHANGED <<histVars, viewVars, navVars, modeVars>>

NextDelta == DoInvert \/ DoChain

SpecDelta == InitDelta /\ [][NextDelta]_vars

Deleted(d) == {i \in 0..(d.base_len - 1) : \A j \in 1..Len(d.els) : d.els[j] # Copy(i)}

HasInsert(d) == \E j \in 1..Len(d.els) : d.els[j].k = "insert"

\* C1: applying a delta to a rope and then the delta Action::invert returns
\* to the result yields the bytes of the rope again.
C1_Invertibility ==
    inversion # Unset => apply_delta(mid_rope, inversion) = start_rope

\* A delete at position 0 together with an insert at the end of the rope.
C1_Witness ==
    /\ inversion # Unset
    /\ Len(start_rope) >= 3
    /\ Deleted(delta1) = {0}
    /\ delta1.els[Len(delta1.els)].k = "insert"

\* C2: the delta Action::chain returns for d1 then d2 takes the base rope to
\* the bytes sequential application of d1 and d2 yields.
C2_ChainCorrect ==
    chained # Unset => apply_delta(start_rope, chained) = final_rope

\* d1 replaces the first byte; d2 deletes the byte d1 inserted and inserts
\* its own at that same position.
C2_Witness ==
    /\ chained # Unset
    /\ Len(start_rope) >= 2
    /\ 0 \in Deleted(delta1)
    /\ Len(delta1.els) >= 1
    /\ delta1.els[1].k = "insert"
    /\ 0 \in Deleted(delta2)
    /\ Len(delta2.els) >= 1
    /\ delta2.els[1].k = "insert"

\* C11: Action::invert and Action::chain end without a panic for every
\* delta over the base rope and every second delta over the rope the first
\* yields: deltas without inserts, without deletes, deleting the whole rope,
\* over the empty rope.
C11_NoFailure ==
    /\ ~IsPoisonDelta(inversion)
    /\ ~IsPoisonDelta(chained)

\* d1 deletes the whole rope and inserts nothing; d2 inserts a byte into the
\* empty rope and deletes nothing.
C11_Witness ==
    /\ inversion # Unset
    /\ chained # Unset
    /\ Len(start_rope) >= 2
    /\ delta1.els = <<>>
    /\ delta2.els # <<>>

\* The delta DeltaBuilder::new(n).build() builds: every byte copied.
Identity(n) == [els |-> [i \in 1..n |-> Copy(i - 1)], base_len |-> n]

\* Action::from_delta(identity).chain(&base_rope, d1);
DoChainIdentityFirst ==
    /\ chained_id_first = Unset
    /\ chained_id_first' =
          chain(from_delta(Identity(Len(start_rope))), start_rope, delta1)
    /\ UNCHANGED <<start_rope, delta1, delta2, inversion, chained,
                   chained_id_second>>
    /\ UNCHANGED <<histVars, viewVars, navVars, modeVars>>

\* Action::from_delta(d1).chain(&mid_rope, identity);
DoChainIdentitySecond ==
    /\ chained_id_second = Unset
    /\ chained_id_second' =
          chain(from_delta(delta1), mid_rope, delta2)
    /\ UNCHANGED <<start_rope, delta1, delta2, inversion, chained,
                   chained_id_first>>
    /\ UNCHANGED <<histVars, viewVars, navVars, modeVars>>

\* The inputs of the identity chains: a base rope, a delta over it, and the
\* identity over the rope the delta yields.
InitIdentity ==
    /\ start_rope \in BaseRopes
    /\ delta1 \in Deltas(Len(start_rope), Bytes1)
    /\ delta2 = Identity(Len(apply_delta(start_rope, delta1)))
    /\ inversion = Unset
    /\ chained = Unset
    /\ chained_id_first = Unset
    /\ chained_id_second = Unset
    /\ IdleHistory
    /\ IdleView
    /\ IdleNav
    /\ IdleMode

NextIdentity == DoChainIdentityFirst \/ DoChainIdentitySecond

SpecIdentity == InitIdentity /\ [][NextIdentity]_vars

\* The bytes a delta inserts.
InsertedBytes(d) ==
    {d.els[j].v : j \in {j \in 1..Len(d.els) : d.els[j].k = "insert"}}

Bytes(rope) == {rope[i] : i \in 1..Len(rope)}

\* The bytes d1 inserted and d2 deleted, as they stand in the rope between.
LostInserts ==
    KeepWhere(mid_rope,
              [i \in 1..Len(mid_rope) |->
                  mid_rope[i] \notin Bytes(start_rope) \cup Bytes(final_rope)])

ByteAt(rope, i) == IF i \in 1..Len(rope) THEN rope[i] ELSE -1

\* The sequence the subsets (inserted, deleted) are over: at a position that
\* is not inserted the next base byte, at an inserted position that is not
\* deleted the next byte of the final rope, at an inserted and deleted one
\* the next byte d1 inserted and d2 deleted.
UnionSequence(inserted, deleted) ==
    [i \in 1..Len(inserted) |->
        IF inserted[i] = 0 THEN ByteAt(start_rope, ZerosUpTo(inserted, i))
        ELSE IF ByteAt(deleted, i) = 0
        THEN ByteAt(final_rope, ZerosUpTo(deleted, i))
        ELSE ByteAt(LostInserts,
                    Cardinality({j \in 1..i : inserted[j] # 0
                                              /\ ByteAt(deleted, j) # 0}))]

\* C21: subsets_for_chain of d1 and d2 returns (inserted, deleted, _) over
\* one sequence that holds every base byte and every byte d1 or d2 inserts,
\* each once: without the positions of inserted it is the base rope, without
\* those of deleted the rope d1 then d2 yield.
C21_ChainSubsets ==
    chained # Unset =>
        LET subsets == subsets_for_chain(from_delta(delta1), delta2)
            inserted == subsets[1]
            deleted == subsets[2]
            u == UnionSequence(inserted, deleted)
        IN  /\ ~IsPoison(inserted)
            /\ ~IsPoison(deleted)
            /\ Len(deleted) = Len(inserted)
            /\ Len(u) = Cardinality(Bytes(u))
            /\ Bytes(u) = Bytes(start_rope) \cup InsertedBytes(delta1)
                              \cup InsertedBytes(delta2)
            /\ without_subset(u, inserted) = start_rope
            /\ without_subset(u, deleted) = final_rope

\* d1 deletes a byte and inserts one; d2 deletes the byte d1 inserted and
\* inserts its own, so the sequence holds a byte of each kind.
C21_Witness ==
    /\ chained # Unset
    /\ Len(start_rope) >= 2
    /\ Deleted(delta1) # {}
    /\ LostInserts # <<>>
    /\ HasInsert(delta2)
    /\ Bytes(start_rope) \cap Bytes(final_rope) # {}

MaxEdits == 2    \* most edits recorded in one run


InitHistory ==
    /\ buffer \in BaseRopes
    /\ current_incomplete = None
    /\ undo = <<>>
    /\ redo = <<>>
    /\ orig = buffer
    /\ snaps = <<>>
    /\ pending = FALSE
    /\ n_undos = 0
    /\ n_redos = 0
    /\ clean = TRUE
    /\ IdleDelta
    /\ IdleView
    /\ IdleNav
    /\ IdleMode

\* apply_and_record(delta): apply the delta, record its inverse against the
\* pre-edit rope (a new recording, or chained onto the one in progress), and
\* clear redo.
apply_and_record(delta) ==
    LET inverse == invert(from_delta(delta), buffer)
    IN  /\ buffer' = apply_delta(buffer, delta)
        /\ current_incomplete' =
              IF current_incomplete = None THEN inverse
              ELSE chain(inverse, buffer, current_incomplete)
        /\ redo' = <<>>
        /\ UNCHANGED undo

ApplyAndRecord ==
    /\ Len(snaps) < MaxEdits
    /\ \E delta \in Deltas(Len(buffer), Bytes1 + 10 * Len(snaps)) :
          /\ apply_delta(buffer, delta) # buffer
          /\ apply_and_record(delta)
    /\ snaps' = Append(snaps, buffer')
    /\ pending' = TRUE
    /\ clean' = (clean /\ ~pending /\ n_undos = 0 /\ n_redos = 0)
    /\ UNCHANGED <<orig, n_undos, n_redos>>
    /\ UNCHANGED <<algVars, viewVars, navVars, modeVars>>

\* History::commit: fn commit(&mut self) {}
commit ==
    UNCHANGED <<current_incomplete, undo, redo>>

Commit ==
    /\ pending
    /\ commit
    /\ pending' = FALSE
    /\ UNCHANGED <<buffer, orig, snaps, n_undos, n_redos, clean>>
    /\ UNCHANGED <<algVars, viewVars, navVars, modeVars>>

\* undo(): pop one Action, apply its delta, push the inverse onto redo;
\* a no-op on an empty stack.
Undo ==
    /\ n_undos < MaxEdits
    /\ IF undo = <<>> THEN UNCHANGED <<buffer, current_incomplete, undo, redo>>
       ELSE LET action == undo[Len(undo)]
            IN  /\ buffer' = apply_delta(buffer, action)
                /\ redo' = Append(redo, invert(action, buffer))
                /\ undo' = SubSeq(undo, 1, Len(undo) - 1)
                /\ UNCHANGED current_incomplete
    /\ n_undos' = n_undos + 1
    /\ clean' = (clean /\ ~pending /\ n_redos = 0)
    /\ UNCHANGED <<orig, snaps, pending, n_redos>>
    /\ UNCHANGED <<algVars, viewVars, navVars, modeVars>>

\* redo(): pop one Action, apply its delta, push the inverse onto undo;
\* a no-op on an empty stack.
Redo ==
    /\ n_redos < MaxEdits
    /\ IF redo = <<>> THEN UNCHANGED <<buffer, current_incomplete, undo, redo>>
       ELSE LET action == redo[Len(redo)]
            IN  /\ buffer' = apply_delta(buffer, action)
                /\ undo' = Append(undo, invert(action, buffer))
                /\ redo' = SubSeq(redo, 1, Len(redo) - 1)
                /\ UNCHANGED current_incomplete
    /\ n_redos' = n_redos + 1
    /\ clean' = (clean /\ ~pending /\ n_undos = Len(snaps))
    /\ UNCHANGED <<orig, snaps, pending, n_undos>>
    /\ UNCHANGED <<algVars, viewVars, navVars, modeVars>>

NextHistory == ApplyAndRecord \/ Commit \/ Undo \/ Redo

SpecHistory == InitHistory /\ [][NextHistory]_vars

\* C3: after N recorded-and-committed edits, N undos restore the original
\* buffer, and M <= N redos after them yield the buffer as it was after the
\* first M edits.
C3_UndoRedoRoundTrip ==
    (clean /\ ~pending /\ n_undos = Len(snaps) /\ n_redos <= Len(snaps))
        => buffer = (IF n_redos = 0 THEN orig ELSE snaps[n_redos])

\* C13: a commit with an action in progress pushes that action onto the top
\* of undo and leaves no action in progress.
C13_CommitMovesIncomplete ==
    [][(pending /\ ~pending' /\ current_incomplete # None)
          => /\ undo' = Append(undo, current_incomplete)
             /\ current_incomplete' = None]_vars

\* ------------------------------------------------------------------------
\* src/navigation.rs: NavigationSystem and NavigationCommand.
DefaultViewSize == 384      \* NavigationSystem::new: chunk_size: 384

NavFileSizes == {0, 1000, 4096}

\* (0.0..=100.0).contains(&percentage): false of a NaN and of an infinity.
InRange(percentage) ==
    percentage.k = "num" /\ 0 <= percentage.v /\ percentage.v <= 100

\* f64 + f64.
f64_add(a, b) ==
    IF a.k = "nan" \/ b.k = "nan" THEN NaN
    ELSE IF a.k = "inf" THEN (IF b.k = "inf" /\ b.v # a.v THEN NaN ELSE a)
    ELSE IF b.k = "inf" THEN b
    ELSE Num(a.v + b.v)

\* a <= b for f64 that are no NaN.
f64_le(a, b) ==
    \/ a.k = "inf" /\ a.v < 0
    \/ b.k = "inf" /\ b.v > 0
    \/ a.k = "num" /\ b.k = "num" /\ a.v <= b.v

\* f64::max and f64::min: of a NaN and a number, the number.
f64_max(a, b) ==
    IF a.k = "nan" THEN b ELSE IF b.k = "nan" THEN a
    ELSE IF f64_le(a, b) THEN b ELSE a

f64_min(a, b) ==
    IF a.k = "nan" THEN b ELSE IF b.k = "nan" THEN a
    ELSE IF f64_le(a, b) THEN a ELSE b

\* -f64.
f64_neg(a) == IF a.k = "nan" THEN a ELSE [a EXCEPT !.v = -@]

\* NavigationSystem::percentage_to_offset, of a percentage in 0 .. 100:
\* ((percentage / 100.0) * file_size as f64) as u64.  It is called with
\* whole multiples of 25, for which the f64 quotient and product are exact.
percentage_to_offset(percentage) == (percentage.v * file_size) \div 100

\* NavigationSystem::get_current_window of a system at percentage cp.
WindowAt(cp) ==
    LET current_offset == percentage_to_offset(cp)
        window_end == Min2(current_offset + DefaultViewSize, file_size)
    IN  <<current_offset, window_end>>

get_current_window == WindowAt(current_percentage)

\* NavigationSystem::jump_to_percentage: the result, and current_percentage
\* when it returns.
jump_to_percentage(percentage) ==
    IF ~InRange(percentage)
    THEN [res |-> [ok |-> FALSE, kind |-> "InvalidInput"],
          current_percentage |-> current_percentage]
    ELSE [res |-> [ok |-> TRUE, offset |-> percentage_to_offset(percentage)],
          current_percentage |-> percentage]

\* NavigationSystem::move_relative.
move_relative(delta_percentage) ==
    LET new_percentage ==
            f64_min(f64_max(f64_add(current_percentage, delta_percentage),
                            Num(0)), Num(100))
    IN  jump_to_percentage(new_percentage)

\* NavigationSystem::jump_to_position.
jump_to_position(position) ==
    LET percentage == CASE position = "START" -> Num(0)
                        [] position = "QUARTER" -> Num(25)
                        [] position = "MIDDLE" -> Num(50)
                        [] position = "THREE_QUARTERS" -> Num(75)
                        [] position = "END" -> Num(100)
    IN  jump_to_percentage(percentage)

FilePosition == {"START", "QUARTER", "MIDDLE", "THREE_QUARTERS", "END"}

\* Percentages given to jump_to_percentage and to move_relative.
Percentages ==
    {Num(-25), Num(0), Num(25), Num(50), Num(75), Num(100), Num(125),
     NaN, Inf, NegInf}

DeltaPercentages == {Num(-50), Num(-25), Num(25), Num(125), NaN}

\* A str is the sequence of its chars.
Digits == <<"0", "1", "2", "3", "4", "5", "6", "7", "8", "9">>

IsDigit(c) == \E i \in 1..Len(Digits) : Digits[i] = c

DigitValue(c) == (CHOOSE i \in 1..Len(Digits) : Digits[i] = c) - 1

UpperChars == <<"A", "D", "E", "F", "I", "N", "R", "S", "T">>
LowerChars == <<"a", "d", "e", "f", "i", "n", "r", "s", "t">>

\* str::to_lowercase.
to_lowercase(str) ==
    [i \in 1..Len(str) |->
        IF \E j \in 1..Len(UpperChars) : UpperChars[j] = str[i]
        THEN LowerChars[CHOOSE j \in 1..Len(UpperChars) : UpperChars[j] = str[i]]
        ELSE str[i]]

\* str::trim.
RECURSIVE trim_start(_)
trim_start(str) ==
    IF str # <<>> /\ Head(str) = " " THEN trim_start(Tail(str)) ELSE str

RECURSIVE trim_end(_)
trim_end(str) ==
    IF str # <<>> /\ str[Len(str)] = " "
    THEN trim_end(SubSeq(str, 1, Len(str) - 1)) ELSE str

trim(str) == trim_end(trim_start(str))

\* str::strip_suffix(char) and str::strip_prefix(char): Some(rest) or None.
NoneStr == [some |-> FALSE, str |-> <<>>]

strip_suffix(str, c) ==
    IF str # <<>> /\ str[Len(str)] = c
    THEN [some |-> TRUE, str |-> SubSeq(str, 1, Len(str) - 1)]
    ELSE NoneStr

strip_prefix(str, c) ==
    IF str # <<>> /\ Head(str) = c
    THEN [some |-> TRUE, str |-> Tail(str)]
    ELSE NoneStr

RECURSIVE DecimalValue(_)
DecimalValue(str) ==
    IF str = <<>> THEN 0
    ELSE 10 * DecimalValue(SubSeq(str, 1, Len(str) - 1))
            + DigitValue(str[Len(str)])

AllDigits(str) == str # <<>> /\ \A i \in 1..Len(str) : IsDigit(str[i])

\* str::parse::<f64> of a str without "." and without an exponent: an
\* optional sign, then "inf", "infinity", "nan" (in either case) or digits.
parse_f64_unsigned(str) ==
    IF AllDigits(str) THEN [ok |-> TRUE, num |-> Num(DecimalValue(str))]
    ELSE IF to_lowercase(str) = <<"n", "a", "n">>
    THEN [ok |-> TRUE, num |-> NaN]
    ELSE IF to_lowercase(str) \in {<<"i", "n", "f">>,
                                   <<"i", "n", "f", "i", "n", "i", "t", "y">>}
    THEN [ok |-> TRUE, num |-> Inf]
    ELSE [ok |-> FALSE, num |-> NaN]

parse_f64(str) ==
    IF str # <<>> /\ Head(str) = "+" THEN parse_f64_unsigned(Tail(str))
    ELSE IF str # <<>> /\ Head(str) = "-"
    THEN LET r == parse_f64_unsigned(Tail(str))
         IN  [r EXCEPT !.num = f64_neg(@)]
    ELSE parse_f64_unsigned(str)

ParseErr == [ok |-> FALSE, command_type |-> "none", value |-> Num(0)]

\* NavigationCommand::parse.
parse(str) ==
    LET input == to_lowercase(trim(str))
        percentage == strip_suffix(input, "%")
        plus == strip_prefix(percentage.str, "+")
        minus == strip_prefix(percentage.str, "-")
    IN  IF input = <<"s", "t", "a", "r", "t">>
        THEN [ok |-> TRUE, command_type |-> "QuickPosition(START)",
              value |-> Num(0)]
        ELSE IF input = <<"e", "n", "d">>
        THEN [ok |-> TRUE, command_type |-> "QuickPosition(END)",
              value |-> Num(0)]
        ELSE IF ~percentage.some THEN ParseErr
        ELSE IF plus.some
        THEN IF parse_f64(plus.str).ok
             THEN [ok |-> TRUE, command_type |-> "RelativeMove",
                   value |-> parse_f64(plus.str).num]
             ELSE ParseErr
        ELSE IF minus.some
        THEN IF parse_f64(minus.str).ok
             THEN [ok |-> TRUE, command_type |-> "RelativeMove",
                   value |-> f64_neg(parse_f64(minus.str).num)]
             ELSE ParseErr
        ELSE IF parse_f64(percentage.str).ok
        THEN [ok |-> TRUE, command_type |-> "AbsoluteJump",
              value |-> parse_f64(percentage.str).num]
        ELSE ParseErr

\* The commands of the module's usage: start, end, and a percentage of
\* digits with at most one sign, in either case and with blanks around.
WellFormed(str) ==
    LET input == to_lowercase(trim(str))
        percentage == strip_suffix(input, "%")
        number == IF percentage.str # <<>> /\ Head(percentage.str) \in {"+", "-"}
                  THEN Tail(percentage.str) ELSE percentage.str
    IN  \/ input = <<"s", "t", "a", "r", "t">>
        \/ input = <<"e", "n", "d">>
        \/ percentage.some /\ AllDigits(number)

\* Commands typed by the user.
CommandInputs ==
    {<<"5", "0", "%">>, <<"+", "2", "5", "%">>, <<"-", "2", "5", "%">>,
     <<"s", "t", "a", "r", "t">>, <<"e", "n", "d">>,
     <<" ", "E", "n", "d", " ">>, <<"S", "T", "A", "R", "T">>,
     <<"1", "2", "5", "%">>, <<" ", "7", "5", "%", " ">>,
     <<>>, <<" ">>, <<"%">>, <<"5", "0">>, <<"+", "%">>, <<"-", "%">>,
     <<"+">>, <<"s", "t", "a", "r", "t", "%">>, <<"5", "0", "%", "%">>,
     <<"5", "x", "%">>, <<"+", " ", "5", "%">>, <<"5", " ", "%">>,
     <<"e", "n", "d", "s">>, <<"%", "5", "0">>,
     <<"+", "+", "2", "5", "%">>, <<"-", "-", "2", "5", "%">>,
     <<"+", "-", "2", "5", "%">>,
     <<"n", "a", "n", "%">>, <<"+", "i", "n", "f", "%">>}

\* NavigationSystem::new(file_path).
InitNav ==
    /\ file_size \in NavFileSizes
    /\ current_percentage = Num(0)
    /\ nav_call = NoCall
    /\ parse_call = NoCall
    /\ IdleDelta
    /\ IdleHistory
    /\ IdleView
    /\ IdleMode

\* The state after a call that returned r.
Called(op, arg, r) ==
    /\ current_percentage' = r.current_percentage
    /\ nav_call' = [op |-> op, arg |-> arg, res |-> r.res,
                    percentage_before |-> current_percentage,
                    window_before |-> get_current_window]

JumpToPercentage ==
    /\ \E percentage \in Percentages :
          Called("jump_to_percentage", percentage,
                 jump_to_percentage(percentage))
    /\ UNCHANGED <<file_size, parse_call>>
    /\ UNCHANGED <<algVars, histVars, viewVars, modeVars>>

MoveRelative ==
    /\ \E delta_percentage \in DeltaPercentages :
          Called("move_relative", delta_percentage,
                 move_relative(delta_percentage))
    /\ UNCHANGED <<file_size, parse_call>>
    /\ UNCHANGED <<algVars, histVars, viewVars, modeVars>>

JumpToPosition ==
    /\ \E position \in FilePosition :
          Called("jump_to_position", position, jump_to_position(position))
    /\ UNCHANGED <<file_size, parse_call>>
    /\ UNCHANGED <<algVars, histVars, viewVars, modeVars>>

Parse ==
    /\ \E input \in CommandInputs :
          parse_call' = [op |-> "parse", input |-> input, res |-> parse(input)]
    /\ UNCHANGED <<file_size, current_percentage, nav_call>>
    /\ UNCHANGED <<algVars, histVars, viewVars, modeVars>>

NextNav == JumpToPercentage \/ MoveRelative \/ JumpToPosition \/ Parse

SpecNav == InitNav /\ [][NextNav]_vars

\* jump_to_percentage with a percentage outside 0 .. 100 returns the
\* InvalidInput error and leaves current_percentage and the window alone.
JumpRejected ==
    (nav_call.op = "jump_to_percentage" /\ ~InRange(nav_call.arg)) =>
        /\ nav_call.res = [ok |-> FALSE, kind |-> "InvalidInput"]
        /\ current_percentage = nav_call.percentage_before
        /\ get_current_window = nav_call.window_before

\* parse of a command that is not well formed returns Err.
ParseRejected ==
    (parse_call.op = "parse" /\ ~WellFormed(parse_call.input)) =>
        ~parse_call.res.ok

\* C15: invalid navigation input is rejected and changes no state: a jump
\* to a percentage outside 0 .. 100 returns InvalidInput and leaves
\* current_percentage and the window alone, and the parse of a malformed
\* command returns Err.
C15_InvalidInputRejected == JumpRejected /\ ParseRejected

\* ------------------------------------------------------------------------
\* src/hex_view/view.rs: HexView over a file-backed CurrentBuffer.
\*
\* The backing file holds file_len bytes; the byte at file offset i is
\* written i, so a rope over the file is the sequence of the file offsets it
\* holds.  It is kept as its maximal runs <<lo, hi>> of consecutive offsets
\* lo .. hi-1 (the empty rope is <<>>).
ChunkSize == 368        \* manage_buffer: let chunk_size = 368
ScrollStride == 16      \* scroll_down / scroll_up: 0x10 * line_count
LoadStride == 16        \* main, scroll_down: (height - 1) * 16
DefaultBytesPerLine == 16   \* with_buffr_collection: bytes_per_line: 0x10
NearDivisor == 10       \* is_near_bottom / is_near_top: len / 10

InitialRows == 24       \* terminal rows when the program starts
SmallRows == 4          \* terminal rows after a resize to a small window

Rows == {SmallRows, InitialRows}

FileSizes == {0, 336, 800}

RECURSIVE RopeLen(_)
RopeLen(r) == IF r = <<>> THEN 0 ELSE (r[1][2] - r[1][1]) + RopeLen(Tail(r))

\* The rope with the run appended (a Delta inserting at the end).
RopeAppend(r, run) ==
    IF run[1] >= run[2] THEN r
    ELSE IF r # <<>> /\ r[Len(r)][2] = run[1]
         THEN [r EXCEPT ![Len(r)] = <<r[Len(r)][1], run[2]>>]
    ELSE Append(r, run)

\* The rope with the run inserted at offset 0.
RopePrepend(r, run) ==
    IF run[1] >= run[2] THEN r
    ELSE IF r # <<>> /\ run[2] = r[1][1]
         THEN [r EXCEPT ![1] = <<run[1], r[1][2]>>]
    ELSE <<run>> \o r

RECURSIVE DropFirst(_, _)
\* The rope without its first n bytes.
DropFirst(r, n) ==
    IF n = 0 \/ r = <<>> THEN r
    ELSE LET l == r[1][2] - r[1][1]
         IN  IF l <= n THEN DropFirst(Tail(r), n - l)
             ELSE <<<<r[1][1] + n, r[1][2]>>>> \o Tail(r)

RECURSIVE DropLast(_, _)
\* The rope without its last n bytes.
DropLast(r, n) ==
    IF n = 0 \/ r = <<>> THEN r
    ELSE LET k == Len(r)
             l == r[k][2] - r[k][1]
         IN  IF l <= n THEN DropLast(SubSeq(r, 1, k - 1), n - l)
             ELSE Append(SubSeq(r, 1, k - 1), <<r[k][1], r[k][2] - n>>)

\* An offset mapped through an insertion of n bytes at offset `at`.
RemapInsert(o, at, n) == IF o < at THEN o ELSE o + n

\* An offset mapped through the deletion of the bytes lo .. hi-1.
RemapDelete(o, lo, hi) ==
    IF o < lo THEN o ELSE IF o >= hi THEN o - (hi - lo) ELSE lo

RegionsThroughInsert(sel, at, n) ==
    [i \in 1..Len(sel) |-> [anchor |-> RemapInsert(sel[i].anchor, at, n),
                            caret |-> RemapInsert(sel[i].caret, at, n)]]

RegionsThroughDelete(sel, lo, hi) ==
    [i \in 1..Len(sel) |-> [anchor |-> RemapDelete(sel[i].anchor, lo, hi),
                            caret |-> RemapDelete(sel[i].caret, lo, hi)]]

\* The HexView as a record the methods below take and return.
Cur ==
    [data |-> data, start_offset |-> start_offset, size_rows |-> size_rows,
     selection |-> selection, status |-> status, build |-> build,
     ev |-> NoEvent]

Running(v) == v.status = "running"

\* File I/O read(path, offset, max_len): the run of the bytes read.
read_file(offset, max_len) == <<offset, Min2(file_len, offset + max_len)>>

BytesRead(offset, max_len) == SatSub(Min2(file_len, offset + max_len), offset)

\* CurrentBuffer::load_next_chunk(chunk_size): read up to chunk_size bytes
\* at the file offset that follows the buffer's rope, whose window the buffer
\* holds from offset 0, and insert them at the end of the rope.
load_next_chunk(v, chunk_size, fail) ==
    IF ~Running(v) THEN v
    ELSE IF fail THEN [v EXCEPT !.status = "error"]
    ELSE LET len == RopeLen(v.data)
             n == BytesRead(len, chunk_size)
         IN  [v EXCEPT !.data = RopeAppend(@, read_file(len, chunk_size)),
                       !.ev.sel_remapped =
                            RegionsThroughInsert(@, len, n)]

\* HexView::is_near_bottom: total_buffer_bytes - current_view_end underflows
\* when the view ends beyond the rope.
NearBottomUnderflows(v) ==
    v.start_offset + (v.size_rows - 2) * bytes_per_line > RopeLen(v.data)

\* The wrapped difference of a release build is no less than 2^64 minus the
\* rope's length, so the comparison fails.
is_near_bottom(v) ==
    LET visible_rows == v.size_rows - 2
        total_buffer_bytes == RopeLen(v.data)
        current_view_end == v.start_offset + (visible_rows * bytes_per_line)
    IN  /\ ~NearBottomUnderflows(v)
        /\ total_buffer_bytes - current_view_end < (total_buffer_bytes \div NearDivisor)

\* HexView::is_near_top.
is_near_top(v) == v.start_offset < (RopeLen(v.data) \div NearDivisor)

\* HexView::add_chunk_to_bottom.
add_chunk_to_bottom(v, chunk_size, fail) ==
    IF ~Running(v) THEN v
    ELSE IF fail THEN [v EXCEPT !.status = "error"]
    ELSE LET current_data_len == RopeLen(v.data)
             bytes_read == BytesRead(current_data_len, chunk_size)
             w == [v EXCEPT !.ev.nb_read_at = current_data_len]
         IN  IF bytes_read > 0
             THEN [w EXCEPT !.data = RopeAppend(@, read_file(current_data_len, chunk_size)),
                            !.ev.sel_remapped =
                                RegionsThroughInsert(@, current_data_len, bytes_read)]
             ELSE w

\* HexView::add_chunk_to_top.
add_chunk_to_top(v, chunk_size, fail) ==
    IF ~Running(v) THEN v
    ELSE IF fail THEN [v EXCEPT !.status = "error"]
    ELSE LET start_pos == SatSub(v.start_offset, chunk_size)
             bytes_read == BytesRead(start_pos, chunk_size)
         IN  IF bytes_read > 0
             THEN [v EXCEPT !.data = RopePrepend(@, read_file(start_pos, chunk_size)),
                            !.start_offset = start_pos,
                            !.ev.sel_remapped =
                                RegionsThroughInsert(@, 0, bytes_read)]
             ELSE v

\* HexView::trim_buffer_bottom: "Remove first chunk_size bytes".
trim_buffer_bottom(v, chunk_size) ==
    IF ~Running(v) THEN v
    ELSE IF RopeLen(v.data) > chunk_size * 2
    THEN [v EXCEPT !.data = DropFirst(@, chunk_size),
                   !.start_offset = @ + chunk_size,
                   !.ev.sel_remapped =
                        RegionsThroughDelete(@, 0, chunk_size)]
    ELSE v

\* HexView::trim_buffer_top: "Remove last chunk_size bytes".
trim_buffer_top(v, chunk_size) ==
    IF ~Running(v) THEN v
    ELSE IF RopeLen(v.data) > chunk_size * 2
    THEN LET total_len == RopeLen(v.data)
         IN  [v EXCEPT !.data = DropLast(@, chunk_size),
                       !.ev.sel_remapped =
                            RegionsThroughDelete(@, total_len - chunk_size, total_len)]
    ELSE v

\* HexView::manage_buffer.  A debug build panics on the underflow in
\* is_near_bottom and a release build wraps; which build runs is open until
\* the first underflow shows it.
manage_buffer(v, io) ==
    IF ~Running(v) THEN v
    ELSE IF NearBottomUnderflows(v) /\ v.build # "release" /\ io.overflow_panics
    THEN [v EXCEPT !.status = "panic", !.build = "debug"]
    ELSE
    LET chunk_size == ChunkSize
        v0 == [v EXCEPT !.ev.managed = TRUE,
                        !.build = IF NearBottomUnderflows(v) THEN "release" ELSE @]
        b1 == add_chunk_to_bottom(v0, chunk_size, io.fails = "bottom")
        b2 == trim_buffer_top(b1, chunk_size)
        v1 == IF is_near_bottom(v0)
              THEN IF Running(b1)
                   THEN [b2 EXCEPT !.ev.nb_fired = TRUE,
                                   !.ev.nb_data = v0.data,
                                   !.ev.nb_start = v0.start_offset,
                                   !.ev.nb_fetched_data = b1.data,
                                   !.ev.nb_after_data = b2.data,
                                   !.ev.nb_after_start = b2.start_offset]
                   ELSE b1
              ELSE v0
        t1 == add_chunk_to_top(v1, chunk_size, io.fails = "top")
        t2 == trim_buffer_bottom(t1, chunk_size)
    IN  IF ~Running(v1) THEN v1
        ELSE IF is_near_top(v1)
        THEN IF Running(t1)
             THEN [t2 EXCEPT !.ev.nt_fired = TRUE,
                             !.ev.nt_data = v1.data,
                             !.ev.nt_start = v1.start_offset,
                             !.ev.nt_fetched_data = t1.data,
                             !.ev.nt_fetched_start = t1.start_offset,
                             !.ev.nt_after_data = t2.data,
                             !.ev.nt_after_start = t2.start_offset]
             ELSE t1
        ELSE v1

\* HexView::visible_bytes: start_offset .. VisibleEnd(v).
VisibleEnd(v) ==
    Min2(RopeLen(v.data) + 1, v.start_offset + (v.size_rows - 1) * bytes_per_line)

\* HexView::draw and draw_rows slice the rope by visible_bytes(); what the
\* slice of a range that starts beyond its end does is the rope library's.
SlicePanics(v, io) == v.start_offset > VisibleEnd(v) /\ io.slice_panics

\* HexView::draw: queue MoveTo(0, 0) and Clear(ClearType::All), then slice.
draw(v, io) ==
    IF ~Running(v) THEN v
    ELSE IF SlicePanics(v, io)
    THEN [v EXCEPT !.status = "panic", !.ev.cleared = TRUE]
    ELSE [v EXCEPT !.ev.cleared = TRUE]

\* HexView::draw_rows: slice, then draw the invalidated rows.
draw_rows(v, invalidated_rows, io) ==
    IF ~Running(v) THEN v
    ELSE IF SlicePanics(v, io)
    THEN [v EXCEPT !.status = "panic"]
    ELSE [v EXCEPT !.ev.rows_drawn = TRUE]

\* simple_move of every region by one line, clamped to 0 .. max_bytes.
simple_move_down(sel, max_bytes) ==
    [i \in 1..Len(sel) |->
        [anchor |-> Min2(sel[i].caret + bytes_per_line, max_bytes),
         caret |-> Min2(sel[i].caret + bytes_per_line, max_bytes)]]

simple_move_up(sel) ==
    [i \in 1..Len(sel) |->
        [anchor |-> SatSub(sel[i].caret, bytes_per_line),
         caret |-> SatSub(sel[i].caret, bytes_per_line)]]

\* BytePropertiesFormatter::height(): the rows the byte-properties panel
\* takes, from the top of the screen.
BytePropertiesHeight == 2

\* HexView::scroll_down.
scroll_down(v, line_count, io) ==
    IF ~Running(v) THEN v
    ELSE
    LET chunk_size == (v.size_rows - 1) * LoadStride
        e0 == [v EXCEPT !.ev.in_scroll = TRUE,
                        !.ev.scroll_data = v.data,
                        !.ev.scroll_start = v.start_offset,
                        !.ev.sel_remapped = v.selection,
                        !.ev.r.scroll = "down",
                        !.ev.r.lines = line_count,
                        !.ev.r.from = v.start_offset]
        v1 == IF e0.start_offset + (line_count * ScrollStride) >= RopeLen(e0.data)
              THEN load_next_chunk([e0 EXCEPT !.ev.r.fetched = TRUE],
                                   chunk_size, io.fails = "load")
              ELSE e0
        v2 == [v1 EXCEPT !.start_offset = @ + ScrollStride * line_count,
                         !.ev.r.advanced = TRUE,
                         !.ev.r.scrolled_to = v1.start_offset
                                                + ScrollStride * line_count]
        invalidated_rows ==
            ((v.size_rows - 1 - line_count)..(v.size_rows - 2))
                \cup (0..(BytePropertiesHeight - 1))
        v3 == IF line_count > v.size_rows - 1
              THEN draw(v2, io)
              ELSE draw_rows([v2 EXCEPT !.ev.r.scroll_rows = invalidated_rows],
                             invalidated_rows, io)
        v4 == IF Running(v3)
              THEN [v3 EXCEPT !.start_offset = @ + ScrollStride * line_count,
                              !.ev.r.scrolled_to = v3.start_offset
                                                    + ScrollStride * line_count]
              ELSE v3
    IN  IF ~Running(v1) THEN v1
        ELSE IF VisibleEnd(v1) >= RopeLen(v1.data) THEN v1
        ELSE IF line_count > v.size_rows - 1 THEN v3
        ELSE draw(manage_buffer(v4, io), io)

\* A scroll up that invalidates the revealed rows and the panel's rows only.
scroll_up_revealed_rows(v, line_count, io) ==
    IF ~Running(v) THEN v
    ELSE
    LET e0 == [v EXCEPT !.ev.r.scroll = "up",
                        !.ev.r.lines = line_count,
                        !.ev.r.from = v.start_offset]
        v1 == [e0 EXCEPT !.start_offset = @ - ScrollStride * line_count,
                         !.ev.r.advanced = TRUE,
                         !.ev.r.scrolled_to = v.start_offset
                                                - ScrollStride * line_count]
        invalidated_rows ==
            (0..(line_count - 1)) \cup (0..(BytePropertiesHeight - 1))
    IN  IF v.start_offset < ScrollStride * line_count THEN e0
        ELSE IF line_count > v.size_rows - 1 THEN draw(v1, io)
        ELSE draw_rows([v1 EXCEPT !.ev.r.scroll_rows = invalidated_rows],
                       invalidated_rows, io)

\* HexView::scroll_up.
scroll_up(v, line_count, io) ==
    IF ~Running(v) THEN v
    ELSE
    LET e0 == [v EXCEPT !.ev.r.scroll = "up",
                        !.ev.r.lines = line_count,
                        !.ev.r.from = v.start_offset]
        v1 == [e0 EXCEPT !.start_offset = @ - ScrollStride * line_count,
                         !.ev.r.advanced = TRUE,
                         !.ev.r.scrolled_to = v.start_offset
                                                - ScrollStride * line_count]
        invalidated_rows == 0..(line_count + BytePropertiesHeight - 1)
    IN  IF v.start_offset < ScrollStride * line_count THEN e0
        ELSE IF line_count > v.size_rows - 1 THEN draw(v1, io)
        ELSE draw_rows([v1 EXCEPT !.ev.r.scroll_rows = invalidated_rows],
                       invalidated_rows, io)

\* What the environment decides during one event: which file operation
\* fails, if any (the first failure ends the event), whether the build
\* panics on integer overflow, and whether slicing an ill-formed range
\* panics.  An event ends at its first failure or panic, so one choice that
\* ends it is enough.
IOs == {io \in [fails : {"none", "first_load", "load", "bottom", "top"},
                overflow_panics : BOOLEAN, slice_panics : BOOLEAN] :
            /\ ~(io.overflow_panics /\ io.slice_panics)
            /\ io.fails # "none" => ~(io.overflow_panics \/ io.slice_panics)}

\* The same for an event that reads no file and subtracts nothing.
DrawIOs == {io \in IOs : io.fails = "none" /\ ~io.overflow_panics}

\* The state after the event.  The rope and start_offset from before the
\* scroll are kept only for a scroll that failed, and what is recorded for a
\* transition is not kept for these events.
Install(v) ==
    /\ data' = v.data
    /\ start_offset' = v.start_offset
    /\ selection' = v.selection
    /\ status' = v.status
    /\ size_rows' = v.size_rows
    /\ build' = v.build
    /\ ev' = IF v.status = "error" THEN [v.ev EXCEPT !.r = NoRender]
             ELSE [v.ev EXCEPT !.scroll_data = <<>>, !.scroll_start = 0,
                               !.r = NoRender]
    /\ UNCHANGED <<file_len, bytes_per_line, main_selection>>
    /\ UNCHANGED <<algVars, histVars, navVars, modeVars>>

\* main (src/bin/teehee.rs) reads the first (height - 1) * 16 bytes of the
\* file; HexView::with_buffr_collection starts at offset 0 with one region.
InitView ==
    /\ file_len \in FileSizes
    /\ size_rows = InitialRows
    /\ data = RopeAppend(<<>>, <<0, Min2(file_len, (InitialRows - 1) * LoadStride)>>)
    /\ start_offset = 0
    /\ bytes_per_line = DefaultBytesPerLine
    /\ selection = <<[anchor |-> 0, caret |-> 0]>>
    /\ main_selection = 1
    /\ status = "running"
    /\ build = "either"
    /\ ev = NoEvent
    /\ IdleDelta
    /\ IdleHistory
    /\ IdleNav
    /\ IdleMode

\* handle_event_default, Event::Resize(x, y).
Resize ==
    /\ status = "running"
    /\ \E y \in Rows, io \in DrawIOs :
        Install(draw([Cur EXCEPT !.size_rows = y], io))

\* handle_event_default, Ctrl-e.
CtrlE ==
    /\ status = "running"
    /\ \E io \in IOs :
        LET chunk_size == (size_rows - 1) * LoadStride
            v1 == load_next_chunk(Cur, chunk_size, io.fails = "first_load")
            v2 == IF Running(v1)
                  THEN [v1 EXCEPT !.selection =
                            simple_move_down(@, RopeLen(v1.data))]
                  ELSE v1
            v3 == scroll_down(v2, 1, io)
        IN  Install(draw(v3, io))

\* handle_event_default, Ctrl-y.
CtrlY ==
    /\ status = "running"
    /\ \E io \in DrawIOs :
        LET v1 == [Cur EXCEPT !.selection = simple_move_up(@)]
            v2 == scroll_up(v1, 1, io)
        IN  Install(draw(v2, io))

NextView == Resize \/ CtrlE \/ CtrlY

SpecView == InitView /\ [][NextView]_vars

\* ------------------------------------------------------------------------
\* src/hex_view/view.rs: the transitions of a mode (SpecRender).

MaxTransitions == 2     \* most transitions in one run

\* isize / isize: the quotient rounded towards zero.
TruncDiv(a, b) == IF a >= 0 THEN a \div b ELSE -((-a) \div b)

\* Selection::main_cursor_offset.
main_cursor_offset(v) == v.selection[main_selection].caret

\* HexView::maybe_update_offset.
maybe_update_offset(v, io) ==
    IF ~Running(v) THEN v
    ELSE IF RopeLen(v.data) = 0 THEN [v EXCEPT !.start_offset = 0]
    ELSE
    LET cursor == main_cursor_offset(v)
        visible_start == v.start_offset
        visible_end == VisibleEnd(v)
        delta == IF cursor < visible_start THEN cursor - visible_start
                 ELSE cursor - (visible_end - 1)
        line_delta ==
            IF delta < 0
            THEN TruncDiv(delta - bytes_per_line + 1, bytes_per_line)
            ELSE TruncDiv(delta + bytes_per_line - 1, bytes_per_line)
    IN  IF cursor >= visible_start /\ cursor < visible_end THEN v
        ELSE IF delta < 0 THEN scroll_up(v, -line_delta, io)
        ELSE scroll_down(v, line_delta, io)

\* HexView::maybe_update_offset_and_draw.
maybe_update_offset_and_draw(v, io) ==
    IF ~Running(v) THEN v
    ELSE
    LET cursor == main_cursor_offset(v)
        bytes_per_screen == (v.size_rows - 1) * bytes_per_line
        v1 == IF cursor < v.start_offset
              THEN [v EXCEPT !.start_offset = cursor - (cursor % bytes_per_line)]
              ELSE IF cursor >= VisibleEnd(v)
              THEN [v EXCEPT !.start_offset =
                        SatSub(cursor - (cursor % bytes_per_line) + bytes_per_line,
                               bytes_per_screen)]
              ELSE v
    IN  draw(v1, io)

\* An intersection that keeps the interval's own end.
IntersectVisible_unclipped(v, x) ==
    LET lo == Max2(v.start_offset, x[1])
    IN  lo..(Max2(lo, x[2]) - 1)

\* Interval::intersect of the visible bytes and an interval <<lo, hi>>, as
\* the bytes it holds.
IntersectVisible(v, x) ==
    LET lo == Max2(v.start_offset, x[1])
        hi == Max2(lo, Min2(VisibleEnd(v), x[2]))
    IN  lo..(hi - 1)

\* HexView::transition_dirty_bytes, DirtyBytes::ChangeInPlace(intervals).
transition_change_in_place(v, intervals, io) ==
    LET v1 == maybe_update_offset(v, io)
        invalidated_rows ==
            {(byte - v1.start_offset) \div bytes_per_line :
                byte \in UNION {IntersectVisible(v1, x) : x \in intervals}}
                \cup (0..(BytePropertiesHeight - 1))
        v2 == draw_rows(v1, invalidated_rows, io)
    IN  IF Running(v2)
        THEN [v2 EXCEPT !.ev.r.dirty_drawn = TRUE,
                        !.ev.r.dirty_rows = invalidated_rows,
                        !.ev.r.dirty_start = v1.start_offset,
                        !.ev.r.dirty_end = VisibleEnd(v1)]
        ELSE v2

\* HexView::transition_dirty_bytes, DirtyBytes::ChangeLength.
transition_change_length(v, io) == maybe_update_offset_and_draw(v, io)

\* The windows a transition starts from: the first bytes of the file, a
\* start_offset at a line start within them, a cursor at a line's first or
\* last byte or at the end of the rope.
RenderLens == {0, 40, 368, 800}

RenderStarts == {0, 16, 368, 736}

Cursors(len) == {c \in {0, 15, 16, 39, 40, 367, 368, 735, 768, 799, 800} : c <= len}

\* The intervals a mode reports as changed in place.
DirtyIntervals ==
    {{}, {<<0, 1>>}, {<<15, 17>>, <<368, 400>>}, {<<0, 800>>},
     {<<735, 736>>, <<30, 40>>}}

InitRender ==
    /\ file_len = 800
    /\ \E len \in RenderLens :
          /\ data = RopeAppend(<<>>, <<0, len>>)
          /\ start_offset \in {o \in RenderStarts : o <= len}
          /\ selection \in {<<[anchor |-> c, caret |-> c]>> : c \in Cursors(len)}
    /\ size_rows \in Rows
    /\ bytes_per_line = DefaultBytesPerLine
    /\ main_selection = 1
    /\ status = "running"
    /\ build = "either"
    /\ ev = NoEvent
    /\ IdleDelta
    /\ IdleHistory
    /\ IdleNav
    /\ IdleMode

\* The state after a transition.
InstallRender(v) ==
    /\ data' = v.data
    /\ start_offset' = v.start_offset
    /\ selection' = v.selection
    /\ status' = v.status
    /\ size_rows' = v.size_rows
    /\ build' = v.build
    /\ ev' = v.ev
    /\ UNCHANGED <<file_len, bytes_per_line, main_selection>>
    /\ UNCHANGED <<algVars, histVars, navVars, modeVars>>

\* The transitions made so far.
Transitions == IF ev.r.op = "none" THEN 0 ELSE ev.r.n

\* HexView::transition of a mode's ModeTransition::DirtyBytes(ChangeInPlace):
\* the mode has moved the main cursor and changed bytes in place.
ChangeInPlace ==
    /\ status = "running"
    /\ Transitions < MaxTransitions
    /\ \E cursor \in Cursors(RopeLen(data)), intervals \in DirtyIntervals,
          io \in IOs :
        LET v0 == [Cur EXCEPT !.selection = <<[anchor |-> cursor, caret |-> cursor]>>,
                              !.ev.r.op = "ChangeInPlace",
                              !.ev.r.dirty = intervals]
            v1 == transition_change_in_place(v0, intervals, io)
        IN  InstallRender([v1 EXCEPT !.ev.r.n = Transitions + 1])

\* HexView::transition of a mode's ModeTransition::DirtyBytes(ChangeLength):
\* the mode has made the rope longer or shorter and moved the main cursor.
ChangeLength ==
    /\ status = "running"
    /\ Transitions < MaxTransitions
    /\ \E len \in RenderLens, io \in DrawIOs :
        \E cursor \in Cursors(len) :
        LET v0 == [Cur EXCEPT !.data = RopeAppend(<<>>, <<0, len>>),
                              !.selection = <<[anchor |-> cursor, caret |-> cursor]>>,
                              !.ev.r.op = "ChangeLength"]
            v1 == transition_change_length(v0, io)
        IN  InstallRender([v1 EXCEPT !.ev.r.n = Transitions + 1])

NextRender == ChangeInPlace \/ ChangeLength

SpecRender == InitRender /\ [][NextRender]_vars

\* The bytes a transition reported as changed in place.
ChangedBytes == UNION {x[1]..(x[2] - 1) : x \in ev.r.dirty}

\* The rows the byte-properties panel occupies.
PanelRows == 0..(BytePropertiesHeight - 1)

\* C22: after a ChangeInPlace transition that drew its rows, the invalidated
\* rows are exactly the rows (b - start_offset) / bytes_per_line of the
\* changed bytes b inside the visible bytes, together with the rows of the
\* byte-properties panel, where start_offset is the one the rows were drawn
\* with.
C22_ChangeInPlaceRows ==
    ev.r.dirty_drawn =>
        /\ ev.r.dirty_start = start_offset
        /\ ev.r.dirty_rows =
              {(b - start_offset) \div bytes_per_line :
                  b \in {c \in ChangedBytes :
                            c >= start_offset /\ c < ev.r.dirty_end}}
                  \cup PanelRows

\* A transition whose changed bytes reach beyond the visible bytes and touch
\* a row below the panel, after the offset moved to follow the cursor.
C22_Witness ==
    /\ ev.r.dirty_drawn
    /\ ev.r.advanced
    /\ \E b \in ChangedBytes : b >= ev.r.dirty_end
    /\ \E row \in ev.r.dirty_rows : row \notin PanelRows

\* The rows a scroll of ev.r.lines rows reveals: the bottom data rows for a
\* scroll down, the top rows for a scroll up.
RevealedRows ==
    IF ev.r.scroll = "down"
    THEN (size_rows - 1 - ev.r.lines)..(size_rows - 2)
    ELSE 0..(ev.r.lines - 1)

\* C23 as stated: a scroll of N rows that draws rows invalidates the N
\* revealed rows and the rows of the byte-properties panel, and no other.
C23_ScrollRowsAsStated ==
    ev.r.scroll_rows # {} => ev.r.scroll_rows = RevealedRows \cup PanelRows

\* C23: a scroll down of N rows that draws rows invalidates the bottom N data
\* rows and the rows of the byte-properties panel; a scroll up of N rows
\* invalidates rows 0 .. N + height - 1, the N revealed rows and the height
\* rows below them.
C23_ScrollRows ==
    ev.r.scroll_rows # {} =>
        ev.r.scroll_rows =
            IF ev.r.scroll = "down"
            THEN RevealedRows \cup PanelRows
            ELSE 0..(ev.r.lines + BytePropertiesHeight - 1)

\* A scroll up of several rows that invalidated a row which is neither
\* revealed nor one of the panel's.
C23_Witness ==
    /\ ev.r.scroll = "up"
    /\ ev.r.lines > BytePropertiesHeight
    /\ \E row \in ev.r.scroll_rows : row \notin RevealedRows \cup PanelRows

\* ------------------------------------------------------------------------
\* src/hex_view/view.rs: the styling commands of the visible bytes (SpecStyle).

MarkLen == 17           \* bytes of the buffer that is styled

\* The PrioritizedStyle values: default_style() has Priority::Basic.
Basic == "default_style"

NoStyle == "none"

\* StylingCommand::default().
DefaultCommand == [start |-> NoStyle, mid |-> NoStyle, end |-> NoStyle]

\* StylingCommand::with_start_style, with_mid_style and with_end_style.
with_start_style(cmd, style) == [cmd EXCEPT !.start = style]

with_mid_style(cmd, style) == [cmd EXCEPT !.mid = style]

with_end_style(cmd, style) == [cmd EXCEPT !.end = style]

\* Selection::regions_in_range: the regions that touch start .. end - 1, in
\* order, with their min(), max(), caret and is_main().
regions_in_range(sel, main, start, end) ==
    LET all == [k \in 1..Len(sel) |->
                   [min |-> Min2(sel[k].anchor, sel[k].caret),
                    max |-> Max2(sel[k].anchor, sel[k].caret),
                    caret |-> sel[k].caret,
                    is_main |-> k = main]]
        Touches(r) == r.max >= start /\ r.min < end
    IN  SelectSeq(all, Touches)

\* active_selection_style() or inactive_selection_style() of a region.
SelectionStyle(r) ==
    IF r.is_main THEN "active_selection_style" ELSE "inactive_selection_style"

\* active_caret_style() or inactive_caret_style() of a region.
CaretStyle(r) == IF r.is_main THEN "active_caret_style" ELSE "inactive_caret_style"

\* The body of the loop of HexView::mark_commands for byte i: the command of
\* the byte, and the stack and the regions after it.
MarkByte(i, command_stack, selected_regions, has_half_cursor) ==
    LET has == selected_regions # <<>>
        r == Head(selected_regions)
        starts == has /\ r.min = i
        stack == IF starts THEN Append(command_stack, SelectionStyle(r))
                 ELSE command_stack
        last == stack[Len(stack)]
        c1 == IF starts THEN with_start_style(DefaultCommand, last)
              ELSE DefaultCommand
        c2 == IF has /\ r.caret = i
              THEN IF has_half_cursor
                   THEN IF i = r.min
                        THEN with_end_style(with_mid_style(c1, CaretStyle(r)), last)
                        ELSE with_mid_style(with_start_style(c1, last), CaretStyle(r))
                   ELSE with_end_style(with_start_style(c1, CaretStyle(r)), last)
              ELSE c1
        ends == has /\ r.max = i
        c3 == IF ends THEN with_end_style(c2, stack[Len(stack) - 1]) ELSE c2
        c4 == IF i % bytes_per_line = 0 /\ c3.start = NoStyle
              THEN with_start_style(c3, last)
              ELSE IF (i + 1) % bytes_per_line = 0
              THEN with_end_style(c3, Basic)
              ELSE c3
    IN  [cmd |-> c4,
         stack |-> IF ends THEN SubSeq(stack, 1, Len(stack) - 1) ELSE stack,
         regions |-> IF ends THEN Tail(selected_regions) ELSE selected_regions]

RECURSIVE MarkFrom(_, _, _, _, _)
\* The commands of bytes i .. end - 1.
MarkFrom(i, end, command_stack, selected_regions, has_half_cursor) ==
    IF i >= end THEN <<>>
    ELSE LET m == MarkByte(i, command_stack, selected_regions, has_half_cursor)
         IN  <<m.cmd>> \o MarkFrom(i + 1, end, m.stack, m.regions, has_half_cursor)

\* HexView::mark_commands(visible) for visible = start .. end.
mark_commands(v, start, end, has_half_cursor) ==
    LET selected_regions == regions_in_range(v.selection, main_selection, start, end)
        command_stack ==
            IF selected_regions # <<>> /\ selected_regions[1].min < start
            THEN <<Basic, SelectionStyle(selected_regions[1])>>
            ELSE <<Basic>>
    IN  MarkFrom(start, end, command_stack, selected_regions, has_half_cursor)

\* The values set_bytes_per_line is called with.
BytesPerLines == {1, 2, 3, DefaultBytesPerLine}

\* The offsets a region's anchor and caret are at.
MarkOffsets == {0, 1, 2, 15, 16, MarkLen}

\* The selections: one region, or two that do not overlap, in order.
MarkSelections ==
    LET Region == [anchor : MarkOffsets, caret : MarkOffsets]
    IN  {<<r>> : r \in Region}
        \cup {<<r1, r2>> : r1 \in [anchor : {0}, caret : {0, 1}],
                           r2 \in [anchor : {2, 15}, caret : {15, 16}]}

InitStyle ==
    /\ file_len = MarkLen
    /\ data = RopeAppend(<<>>, <<0, MarkLen>>)
    /\ start_offset \in {0, 1}
    /\ selection \in MarkSelections
    /\ main_selection = 1
    /\ size_rows \in Rows
    /\ bytes_per_line = DefaultBytesPerLine
    /\ status = "running"
    /\ build = "either"
    /\ ev = NoEvent
    /\ IdleDelta
    /\ IdleHistory
    /\ IdleNav
    /\ IdleMode

\* HexView::set_bytes_per_line(bpl).
SetBytesPerLine ==
    /\ \E bpl \in BytesPerLines : bytes_per_line' = bpl
    /\ ev' = NoEvent
    /\ UNCHANGED <<file_len, data, start_offset, selection, main_selection,
                   size_rows, status, build>>
    /\ UNCHANGED <<algVars, histVars, navVars, modeVars>>

\* HexView::mark_commands(visible_bytes()), as draw_rows calls it, in a mode
\* with or without a half cursor.
MarkCommands ==
    /\ \E has_half_cursor \in BOOLEAN :
          ev' = [NoEvent EXCEPT
                    !.r.marked = TRUE,
                    !.r.marks_start = start_offset,
                    !.r.marks = mark_commands(Cur, start_offset,
                                              VisibleEnd(Cur), has_half_cursor)]
    /\ UNCHANGED <<file_len, data, start_offset, selection, main_selection,
                   size_rows, bytes_per_line, status, build>>
    /\ UNCHANGED <<algVars, histVars, navVars, modeVars>>

NextStyle == SetBytesPerLine \/ MarkCommands

SpecStyle == InitStyle /\ [][NextStyle]_vars

\* C24: after mark_commands, every visible byte i with
\* (i + 1) % bytes_per_line = 0 has the Basic default style as its end style.
C24_LineEndBasic ==
    ev.r.marked =>
        \A k \in 1..Len(ev.r.marks) :
            (ev.r.marks_start + k) % bytes_per_line = 0
                => ev.r.marks[k].end = Basic

\* The scroll down of the last transition passed the at-bottom check, and
\* the transition ran to its end.
ScrolledDown == ev.r.scroll = "down" /\ ev.r.advanced /\ status = "running"

\* C25: a scroll_down(line_count) that passes the at-bottom check moves
\* start_offset on by line_count * bytes_per_line, whether or not line_count
\* exceeds the screen height; and a scroll_up(line_count) that follows it with
\* no fetch or trim in between returns start_offset to where the scroll down
\* began.
C25_ScrollAdvance ==
    /\ [](ScrolledDown =>
            ev.r.scrolled_to = ev.r.from + ev.r.lines * bytes_per_line)
    /\ [][(/\ ScrolledDown
           /\ ~ev.r.fetched /\ ~ev.nb_fired /\ ~ev.nt_fired
           /\ start_offset = ev.r.scrolled_to
           /\ ev'.r.scroll = "up" /\ ev'.r.advanced
           /\ ev'.r.lines = ev.r.lines
           /\ ev'.r.from = start_offset)
              => ev'.r.scrolled_to = ev.r.from]_vars

\* An evaluation of is_near_bottom has subtracted a current_view_end larger
\* than total_buffer_bytes: the build is then known to have panicked or to
\* have wrapped.
NearBottomUnderflowed == build # "either"

\* C26: whenever is_near_bottom is evaluated,
\* start_offset + (terminal_rows - 2) * bytes_per_line is at most data.len(),
\* so total_buffer_bytes - current_view_end never underflows.
C26_NearBottomNoUnderflow == ~NearBottomUnderflowed

\* C27: start_offset is at most data.len() in every reachable state.
C27_StartWithinData == start_offset <= RopeLen(data)

\* The main cursor is one of the visible bytes.
CursorVisible ==
    /\ start_offset <= main_cursor_offset(Cur)
    /\ main_cursor_offset(Cur) < VisibleEnd(Cur)

\* C28: after transition_dirty_bytes has run to its end on a buffer that is
\* not empty, for ChangeInPlace and for ChangeLength, the main cursor lies
\* inside visible_bytes().
C28_CursorVisibleAfterTransition ==
    (ev.r.op # "none" /\ status = "running" /\ RopeLen(data) > 0)
        => CursorVisible

\* ------------------------------------------------------------------------
\* src/modes/replace.rs: the Replace mode (SpecReplace).

ReplaceLen == 2         \* bytes of the buffer in Replace mode

\* Normal::new() and Replace { hex, hex_half }; hex_half is NoHalf for None.
NoHalf == -1

Normal == [name |-> "Normal", hex |-> FALSE, hex_half |-> NoHalf]

Replace(hex, hex_half) == [name |-> "Replace", hex |-> hex, hex_half |-> hex_half]

\* The characters typed, with their code points.
CharCode ==
    [ch \in {"0", "7", "a", "F", "n", "g"} |->
        CASE ch = "0" -> 48 [] ch = "7" -> 55 [] ch = "a" -> 97
          [] ch = "F" -> 70 [] ch = "n" -> 110 [] ch = "g" -> 103]

Chars == DOMAIN CharCode

\* char::is_ascii_hexdigit.
is_ascii_hexdigit(ch) ==
    \/ CharCode[ch] \in 48..57
    \/ CharCode[ch] \in 65..70
    \/ CharCode[ch] \in 97..102

\* char::to_digit(16) of a hex digit.
to_digit(ch) ==
    IF CharCode[ch] \in 48..57 THEN CharCode[ch] - 48
    ELSE IF CharCode[ch] \in 65..70 THEN CharCode[ch] - 65 + 10
    ELSE CharCode[ch] - 97 + 10

RECURSIVE BitOr(_, _)
\* a | b.
BitOr(a, b) ==
    IF a = 0 THEN b
    ELSE IF b = 0 THEN a
    ELSE Max2(a % 2, b % 2) + 2 * BitOr(a \div 2, b \div 2)

\* (ch.to_digit(16).unwrap() as u8) << 4.
first_half(ch) == (to_digit(ch) * 16) % 256

\* A second digit that drops the pending half.
second_digit_alone(ch, hex_half) == to_digit(ch)

\* (ch.to_digit(16).unwrap() as u8) | self.hex_half.unwrap().
second_digit(ch, hex_half) == BitOr(to_digit(ch), hex_half)

\* The key modifiers of an event.
Modifiers == SUBSET {"SHIFT", "CONTROL", "ALT"}

\* A test for CONTROL only.
has_other_modifier_control(modifiers) == "CONTROL" \in modifiers

\* !(*modifiers & !KeyModifiers::SHIFT).is_empty().
has_other_modifier(modifiers) == modifiers \ {"SHIFT"} # {}

\* The events: a character key, another key, and an event that is no key.
KeyChar(ch, modifiers) == [kind |-> "char", ch |-> ch, modifiers |-> modifiers]

OtherKeys == {[kind |-> "key", code |-> c] : c \in {"Esc", "Enter"}}

NonKeys == {[kind |-> "resize"], [kind |-> "mouse"]}

\* DEFAULT_MAPS.event_to_action: ctrl 'n' is Action::Null.
event_to_action(evt) ==
    IF evt.kind = "char" /\ evt.ch = "n" /\ evt.modifiers = {"CONTROL"}
    THEN "Null" ELSE "none"

\* Whether offset i is inside one of the regions.
Selected(rs, i) ==
    \E k \in 1..Len(rs) :
        /\ Min2(rs[k].anchor, rs[k].caret) <= i
        /\ i <= Max2(rs[k].anchor, rs[k].caret)

\* ops::replace followed by apply_delta: every selected byte becomes ch.
ops_replace(bytes, rs, ch) ==
    [i \in 1..Len(bytes) |-> IF Selected(rs, i - 1) THEN ch ELSE bytes[i]]

\* No transition.
NoTransition == [some |-> FALSE]

\* ModeTransition::new_mode and new_mode_and_dirty.
new_mode(m, bytes) == [some |-> TRUE, mode |-> m, content |-> bytes]

\* Replace::transition.
transition(self, evt, bytes, rs) ==
    IF evt.kind = "char"
    THEN IF event_to_action(evt) = "Null"
         THEN new_mode(Normal, ops_replace(bytes, rs, 0))
         ELSE IF has_other_modifier(evt.modifiers)
         THEN new_mode(Normal, bytes)
         ELSE IF ~self.hex
         THEN new_mode(Normal, ops_replace(bytes, rs, CharCode[evt.ch] % 256))
         ELSE IF self.hex_half = NoHalf
         THEN IF ~is_ascii_hexdigit(evt.ch)
              THEN new_mode(Normal, bytes)
              ELSE new_mode(Replace(self.hex, first_half(evt.ch)), bytes)
         ELSE IF ~is_ascii_hexdigit(evt.ch)
              THEN new_mode(Normal, bytes)
              ELSE new_mode(Normal,
                            ops_replace(bytes, rs,
                                        second_digit(evt.ch, self.hex_half)))
    ELSE IF evt.kind = "key"
    THEN new_mode(Normal, bytes)
    ELSE NoTransition

\* The bytes a buffer holds.
ContentBytes == {0, 65}

RECURSIVE Contents(_)
\* The buffers of n bytes.
Contents(n) ==
    IF n = 0 THEN {<<>>}
    ELSE {Append(c, b) : c \in Contents(n - 1), b \in ContentBytes}

InitReplace ==
    /\ mode \in {Replace(hex, NoHalf) : hex \in BOOLEAN}
    /\ content \in Contents(ReplaceLen)
    /\ \E a \in 0..(ReplaceLen - 1), c \in 0..(ReplaceLen - 1) :
          regions = <<[anchor |-> a, caret |-> c]>>
    /\ typed = <<>>
    /\ prev = [mode |-> mode, content |-> content]
    /\ last_event = [kind |-> "none"]
    /\ IdleDelta
    /\ IdleHistory
    /\ IdleView
    /\ IdleNav

\* The state after Replace::transition for the event.
Handle(evt) ==
    LET t == transition(mode, evt, content, regions)
    IN  /\ prev' = [mode |-> mode, content |-> content]
        /\ last_event' = evt
        /\ mode' = IF t.some THEN t.mode ELSE mode
        /\ content' = IF t.some THEN t.content ELSE content

\* A character key in Replace mode.
TypeChar ==
    /\ mode.name = "Replace"
    /\ \E ch \in Chars, modifiers \in Modifiers : Handle(KeyChar(ch, modifiers))
    /\ typed' = Append(typed, last_event')
    /\ UNCHANGED regions
    /\ UNCHANGED <<algVars, histVars, viewVars, navVars>>

\* A key that is no character in Replace mode.
TypeOtherKey ==
    /\ mode.name = "Replace"
    /\ \E evt \in OtherKeys : Handle(evt)
    /\ typed' = Append(typed, last_event')
    /\ UNCHANGED regions
    /\ UNCHANGED <<algVars, histVars, viewVars, navVars>>

\* An event that is no key in Replace mode.
NonKeyEvent ==
    /\ mode.name = "Replace"
    /\ \E evt \in NonKeys : Handle(evt)
    /\ UNCHANGED <<regions, typed>>
    /\ UNCHANGED <<algVars, histVars, viewVars, navVars>>

NextReplace == TypeChar \/ TypeOtherKey \/ NonKeyEvent

SpecReplace == InitReplace /\ [][NextReplace]_vars

\* A hex digit typed with no modifier other than Shift.
PlainHexDigit(evt) ==
    /\ evt.kind = "char"
    /\ evt.modifiers \subseteq {"SHIFT"}
    /\ evt.ch \in {"0", "7", "a", "F"}

\* The value of a hex digit.
HexValue(ch) ==
    CASE ch = "0" -> 0 [] ch = "7" -> 7 [] ch = "a" -> 10 [] ch = "F" -> 15

\* C29: in Replace mode with hex = TRUE and no pending half, a first hex
\* digit h1 changes only the mode, to Replace with hex_half = h1 << 4, and a
\* second hex digit h2 puts 16 * h1 + h2 into every selected byte, leaves the
\* other bytes alone and returns to Normal.
C29_TwoHexDigits ==
    /\ (/\ last_event.kind = "char"
        /\ prev.mode = Replace(TRUE, NoHalf)
        /\ PlainHexDigit(last_event))
          => /\ mode = Replace(TRUE, 16 * HexValue(last_event.ch))
             /\ content = prev.content
    /\ (/\ Len(typed) = 2
        /\ PlainHexDigit(typed[1])
        /\ PlainHexDigit(typed[2])
        /\ prev.mode = Replace(TRUE, 16 * HexValue(typed[1].ch)))
          => /\ mode = Normal
             /\ Len(content) = Len(prev.content)
             /\ \A i \in 1..Len(content) :
                  content[i] =
                      IF Selected(regions, i - 1)
                      THEN 16 * HexValue(typed[1].ch) + HexValue(typed[2].ch)
                      ELSE prev.content[i]

\* Two digits, one of them typed with Shift, both with a value above 0, have
\* changed a byte and left another as it was.
C29_Witness ==
    /\ Len(typed) = 2
    /\ PlainHexDigit(typed[1])
    /\ PlainHexDigit(typed[2])
    /\ typed[1].ch = "a"
    /\ typed[2].ch = "F"
    /\ typed[2].modifiers = {"SHIFT"}
    /\ prev.mode = Replace(TRUE, 160)
    /\ mode = Normal
    /\ \E i \in 1..Len(content) : content[i] = 175
    /\ \E i \in 1..Len(content) : content[i] = 65

\* A key that cancels the mode: a character with a modifier other than Shift
\* that is not Ctrl-n, a character that is no hex digit in hex mode, or a key
\* that is no character.
Cancelling(evt, self) ==
    \/ /\ evt.kind = "char"
       /\ evt.modifiers \ {"SHIFT"} # {}
       /\ ~(evt.ch = "n" /\ evt.modifiers = {"CONTROL"})
    \/ /\ evt.kind = "char"
       /\ evt.modifiers \subseteq {"SHIFT"}
       /\ self.hex
       /\ evt.ch \notin {"0", "7", "a", "F"}
    \/ evt.kind = "key"

\* C30: Replace mode is over after at most two key events; a cancelling key
\* returns to Normal and leaves the buffer as it was; an event that is no key
\* changes neither the mode nor the buffer.
C30_ReplaceEnds ==
    /\ mode.name = "Replace" => Len(typed) <= 1
    /\ Len(typed) <= 2
    /\ Cancelling(last_event, prev.mode)
          => mode = Normal /\ content = prev.content
    /\ last_event \in NonKeys
          => mode = prev.mode /\ content = prev.content

\* A second key that cancels a pending half, in a buffer that an accepted
\* digit would have changed.
C30_Witness ==
    /\ Len(typed) = 2
    /\ prev.mode = Replace(TRUE, 112)
    /\ Cancelling(last_event, prev.mode)
    /\ last_event.kind = "char"
    /\ last_event.ch = "a"
    /\ last_event.modifiers = {"ALT"}
    /\ mode = Normal
    /\ content = <<0, 65>>

\* ------------------------------------------------------------------------
\* Properties of the window.

\* The rope is the whole backing file.
WholeFile(r) == r = RopeAppend(<<>>, <<0, file_len>>)

\* The rope's first byte is the first byte of the file.
AtFileStart(r) == r # <<>> /\ r[1][1] = 0

\* The rope's last byte is the last byte of the file.
AtFileEnd(r) == r # <<>> /\ r[Len(r)][2] = file_len

\* C4: for a file of F bytes and chunk size C the rope's length lies in
\* min(F, C) .. 2 * C and start_offset + rope length is at most F.
C4_WindowBound ==
    status = "running" =>
        /\ Min2(file_len, ChunkSize) <= RopeLen(data)
        /\ RopeLen(data) <= 2 * ChunkSize
        /\ start_offset + RopeLen(data) <= file_len

\* C5: the rope is one contiguous slice of the file: no byte twice, none
\* out of order.
C5_Contiguous ==
    status = "running" => Len(data) <= 1

\* C6: every region's anchor and caret lie in 0 .. rope length, regions are
\* sorted and do not overlap, and one of them is the main region.
C6_SelectionValid ==
    status = "running" =>
        /\ \A i \in 1..Len(selection) :
              /\ selection[i].anchor \in 0..RopeLen(data)
              /\ selection[i].caret \in 0..RopeLen(data)
        /\ \A i \in 1..(Len(selection) - 1) :
              Max2(selection[i].anchor, selection[i].caret)
                  < Min2(selection[i + 1].anchor, selection[i + 1].caret)
        /\ main_selection \in 1..Len(selection)

\* C7: after the fetches and trims of manage_buffer every region stands
\* where the inserts and deletes they made map it: behind an insert shifted
\* by its length, inside a deleted range at the surviving boundary.
C7_RegionsRemapped ==
    (status = "running" /\ ev.managed) => selection = ev.sel_remapped

\* C8: when file I/O fails in a fetch of a scroll, the scroll ends in the
\* error with the rope and start_offset as they were when it began.
C8_FetchFailureAtomic ==
    (status = "error" /\ ev.in_scroll) =>
        /\ data = ev.scroll_data
        /\ start_offset = ev.scroll_start

\* C9: a near-bottom trigger with the window at the end of the file, and a
\* near-top trigger with the window at the start of the file, leave the
\* rope and start_offset as they were.
C9_NoOpAtFileEnds ==
    /\ (ev.nb_fired /\ AtFileEnd(ev.nb_data)) =>
            (ev.nb_after_data = ev.nb_data /\ ev.nb_after_start = ev.nb_start)
    /\ (ev.nt_fired /\ AtFileStart(ev.nt_data)) =>
            (ev.nt_after_data = ev.nt_data /\ ev.nt_after_start = ev.nt_start)

\* C10: once the rope is the whole file, and the file is no longer than a
\* window, no event changes the rope.
C10_WholeFileStable ==
    [][(status = "running" /\ WholeFile(data) /\ file_len <= 2 * ChunkSize)
          => data' = data]_vars

\* C14: an event that redraws incrementally, drawing the invalidated rows of
\* a scroll of no more than one screen, queues no clear of the whole screen.
C14_IncrementalRedraw ==
    (status = "running" /\ ev.rows_drawn) => ~ev.cleared

\* The file offset of the rope's first byte.
WindowStart(r) == IF r = <<>> THEN 0 ELSE r[1][1]

\* C16: the near-bottom fetch reads at the file offset window start + rope
\* length, taken when it fires, and appends the bytes read, no more than
\* chunk_size of them, to the rope.  The window start is start_offset, or
\* else the file offset of the rope's first byte.
C16_BottomFetch ==
    ev.nb_fired =>
        /\ \/ ev.nb_read_at = ev.nb_start + RopeLen(ev.nb_data)
           \/ ev.nb_read_at = WindowStart(ev.nb_data) + RopeLen(ev.nb_data)
        /\ ev.nb_fetched_data =
              RopeAppend(ev.nb_data, read_file(ev.nb_read_at, ChunkSize))

\* C17: after the near-bottom fetch, a rope longer than 2 * chunk_size
\* loses its first chunk_size bytes and start_offset advances by
\* chunk_size; a shorter one is left as the fetch made it.
C17_BottomFetchTrim ==
    ev.nb_fired =>
        IF RopeLen(ev.nb_fetched_data) > 2 * ChunkSize
        THEN /\ ev.nb_after_data = DropFirst(ev.nb_fetched_data, ChunkSize)
             /\ ev.nb_after_start = ev.nb_start + ChunkSize
        ELSE /\ ev.nb_after_data = ev.nb_fetched_data
             /\ ev.nb_after_start = ev.nb_start

\* C18: the near-top fetch inserts at the start of the rope the file bytes
\* max(0, start_offset - chunk_size) .. start_offset and sets start_offset
\* to max(0, start_offset - chunk_size).
C18_TopFetch ==
    ev.nt_fired =>
        /\ ev.nt_fetched_data =
              RopePrepend(ev.nt_data,
                          <<SatSub(ev.nt_start, ChunkSize), ev.nt_start>>)
        /\ ev.nt_fetched_start = SatSub(ev.nt_start, ChunkSize)

\* C19: after the near-top fetch, a rope longer than 2 * chunk_size loses
\* its last chunk_size bytes and start_offset stays as the fetch set it; a
\* shorter one is left as the fetch made it.
C19_TopFetchTrim ==
    ev.nt_fired =>
        /\ ev.nt_after_start = ev.nt_fetched_start
        /\ ev.nt_after_data =
              IF RopeLen(ev.nt_fetched_data) > 2 * ChunkSize
              THEN DropLast(ev.nt_fetched_data, ChunkSize)
              ELSE ev.nt_fetched_data

\* C20: every event whose scroll moves start_offset, up or down, evaluates
\* the triggers of manage_buffer before it ends.
C20_TriggersAfterScroll ==
    [][(status' = "running" /\ start_offset' # start_offset)
          => ev'.managed]_vars

====
